---------------------------- MODULE Spec2Model ----------------------------
(***************************************************************************)
(* Double pendulum simulator (src/main.py): the DoublePendulum integrator, *)
(* the trail buffer of the Simulator and the event handlers that drive     *)
(* them.                                                                   *)
(*                                                                         *)
(* Real numbers are carried as fixed-point integers:                       *)
(*   time         1/60000 s   (0.002 s = 120, 1/60 s = 1000, 1 ms = 60)    *)
(*   time scale   0.05        (1.0 = 20)                                   *)
(*   angle        0.00001 rad angular velocity 0.001 rad/s                 *)
(*   length       0.01 m      mass 0.05 kg   gravity 0.01 m/s^2            *)
(*   damping      0.0005                                                   *)
(*   sin, cos     0.001       position 0.00001 m   energy 0.000005 J       *)
(***************************************************************************)
EXTENDS Integers, Sequences, FiniteSets, TLC

\* ------------------------------------------------------------------------
\* Fixed-point arithmetic
\* ------------------------------------------------------------------------

\* a / b rounded to the nearest integer (b > 0), symmetric about 0
Rnd(a, b) == IF a >= 0 THEN (2 * a + b) \div (2 * b)
                       ELSE -((2 * (-a) + b) \div (2 * b))

Abs(a) == IF a >= 0 THEN a ELSE -a
Min2(a, b) == IF a <= b THEN a ELSE b
Max2(a, b) == IF a >= b THEN a ELSE b

\* math.pi and math.pi / 2 in 0.00001 rad
PI == 314159
HALF_PI == 157080

\* pi and pi / 2 in 0.001 rad, the resolution at which sin and cos are evaluated
PI_MRAD == 3142
HALF_PI_MRAD == 1571

\* math.sin on [0, pi] (0.001 rad), in 0.001 (Bhaskara's rational form
\* 16p / (5 pi^2 - 4p), p = x (pi - x)); exact at 0, pi/2 and pi
SinHalfTurn(x) ==
    LET p == x * (PI_MRAD - x)
    IN  Rnd(250 * p, (5 * PI_MRAD * PI_MRAD - 4 * p) \div 64)

\* math.sin of an angle given in 0.001 rad, in 0.001
SinMrad(a) ==
    LET x == a % (2 * PI_MRAD)
    IN  IF x <= PI_MRAD THEN SinHalfTurn(x) ELSE -SinHalfTurn(x - PI_MRAD)

\* math.cos of an angle given in 0.001 rad, in 0.001
CosMrad(a) == SinMrad(a + HALF_PI_MRAD)

\* math.sin and math.cos of an angle given in 0.00001 rad, in 0.001
Sin(theta) == SinMrad(Rnd(theta, 100))
Cos(theta) == CosMrad(Rnd(theta, 100))

\* ------------------------------------------------------------------------
\* DoublePendulum
\* ------------------------------------------------------------------------

\* positions(): <<x1, y1, x2, y2>> in 0.00001 m, y downward from the pivot
positions(p) ==
    LET x1 == p.L1 * Sin(p.theta1)
        y1 == p.L1 * Cos(p.theta1)
    IN  <<x1, y1, x1 + p.L2 * Sin(p.theta2), y1 + p.L2 * Cos(p.theta2)>>

\* A faulty energy whose potential grows downward (V = +g (m1 y1 + m2 y2)); the
\* scenario of the hanging pendulum must tell it from the real one.
energy_potential_grows_downward(p) ==
    LET pos   == positions(p)
        v1    == Rnd(p.L1 * p.omega1, 1000)
        v2    == Rnd(p.L2 * p.omega2, 1000)
        v1_sq == v1 * v1
        v2_sq == v1_sq + v2 * v2
                   + 2 * Rnd(v1 * Cos(p.theta1 - p.theta2), 1000) * v2
    IN  Rnd(p.m1 * v1_sq + p.m2 * v2_sq, 2)
            + p.g * Rnd(p.m1 * pos[2] + p.m2 * pos[4], 1000)

\* energy(): T + V in 0.000005 J
energy(p) ==
    LET pos   == positions(p)
        v1    == Rnd(p.L1 * p.omega1, 1000)          \* L1 * omega1 in cm/s
        v2    == Rnd(p.L2 * p.omega2, 1000)          \* L2 * omega2 in cm/s
        v1_sq == v1 * v1
        v2_sq == v1_sq + v2 * v2
                   + 2 * Rnd(v1 * Cos(p.theta1 - p.theta2), 1000) * v2
        T     == Rnd(p.m1 * v1_sq + p.m2 * v2_sq, 2)
        V     == -(p.g * Rnd(p.m1 * pos[2] + p.m2 * pos[4], 1000))
    IN  T + V

\* The definitions below pass a value that is used more than once as an
\* argument of a further definition, one per stage of the source function.

\* _derivatives: the result, from the terms that are used more than once
derivatives_terms(p, omega1, omega2, s, c, s1, s2, sc, a1, a2, den1) ==
    LET den2  == Rnd(p.L2 * den1, p.L1)
        num1  == p.m2 * Rnd(a1 * sc, 1000)
                 + p.m2 * Rnd(p.g * Rnd(s2 * c, 1000), 1000)
                 + p.m2 * Rnd(a2 * s, 1000)
                 - (p.m1 + p.m2) * Rnd(p.g * s1, 1000)
        num2  == -(p.m2 * Rnd(a2 * sc, 1000))
                 + (p.m1 + p.m2)
                   * (Rnd(p.g * Rnd(s1 * c, 1000), 1000)
                      - Rnd(a1 * s, 1000)
                      - Rnd(p.g * s2, 1000))
        domega1 == Rnd(num1 * 1000, den1) - Rnd(p.damping * omega1, 2000)
        domega2 == Rnd(num2 * 1000, den2) - Rnd(p.damping * omega2, 2000)
    IN  <<omega1, omega2, domega1, domega2>>

\* _derivatives: s = sin(delta), c = cos(delta), s1 = sin(theta1),
\* s2 = sin(theta2); sc = s * c, a1 = L1 * omega1^2 and a2 = L2 * omega2^2 in
\* 0.01 m/s^2, den1 = (m1 + m2) * L1 - m2 * L1 * c * c
derivatives_trig(p, omega1, omega2, s, c, s1, s2) ==
    derivatives_terms(p, omega1, omega2, s, c, s1, s2,
        Rnd(s * c, 1000),
        Rnd(p.L1 * Rnd(omega1 * omega1, 1000), 1000),
        Rnd(p.L2 * Rnd(omega2 * omega2, 1000), 1000),
        (p.m1 + p.m2) * p.L1 - Rnd(p.m2 * p.L1 * Rnd(c * c, 1000), 1000))

\* _derivatives(theta1, theta2, omega1, omega2): <<dtheta1, dtheta2, domega1,
\* domega2>> in 0.001 rad/s and 0.001 rad/s^2
derivatives(p, theta1, theta2, omega1, omega2) ==
    derivatives_trig(p, omega1, omega2, Sin(theta2 - theta1), Cos(theta2 - theta1),
                     Sin(theta1), Sin(theta2))

\* 0.5 * dt * k and dt * k: an angle increment (0.00001 rad) from a velocity,
\* and a velocity increment (0.001 rad/s) from an acceleration
halfth(dt, k) == Rnd(dt * k, 1200)
fullth(dt, k) == Rnd(dt * k, 600)
halfw(dt, k)  == Rnd(dt * k, 120000)
fullw(dt, k)  == Rnd(dt * k, 60000)

\* step: the new state from k1 .. k4
step_sum(p, dt, k1, k2, k3, k4) ==
    [p EXCEPT
        !.theta1 = @ + fullth(dt, Rnd(k1[1] + 2 * k2[1] + 2 * k3[1] + k4[1], 6)),
        !.theta2 = @ + fullth(dt, Rnd(k1[2] + 2 * k2[2] + 2 * k3[2] + k4[2], 6)),
        !.omega1 = @ + fullw(dt, Rnd(k1[3] + 2 * k2[3] + 2 * k3[3] + k4[3], 6)),
        !.omega2 = @ + fullw(dt, Rnd(k1[4] + 2 * k2[4] + 2 * k3[4] + k4[4], 6))]

\* step: k4 from k3
step_k4(p, dt, k1, k2, k3) ==
    step_sum(p, dt, k1, k2, k3,
        derivatives(p, p.theta1 + fullth(dt, k3[1]), p.theta2 + fullth(dt, k3[2]),
                       p.omega1 + fullw(dt, k3[3]), p.omega2 + fullw(dt, k3[4])))

\* step: k3 from k2
step_k3(p, dt, k1, k2) ==
    step_k4(p, dt, k1, k2,
        derivatives(p, p.theta1 + halfth(dt, k2[1]), p.theta2 + halfth(dt, k2[2]),
                       p.omega1 + halfw(dt, k2[3]), p.omega2 + halfw(dt, k2[4])))

\* step: k2 from k1
step_k2(p, dt, k1) ==
    step_k3(p, dt, k1,
        derivatives(p, p.theta1 + halfth(dt, k1[1]), p.theta2 + halfth(dt, k1[2]),
                       p.omega1 + halfw(dt, k1[3]), p.omega2 + halfw(dt, k1[4])))

\* step(dt): one RK4 step of dt (1/60000 s, may be negative)
step(p, dt) ==
    step_k2(p, dt, derivatives(p, p.theta1, p.theta2, p.omega1, p.omega2))

\* self._initial_energy = self.energy()
set_initial_energy(p) == [p EXCEPT !.initial_energy = energy(p)]

\* an optional argument: None when omitted, Some(v) when v is supplied
None == <<>>
Some(v) == <<v>>

\* A faulty reset that takes a supplied angle of 0 for an omitted one
\* ("theta1 or pi/2"); the property of reset must tell it from the real one.
reset_zero_as_omitted(p, theta1, theta2) ==
    set_initial_energy(
        [p EXCEPT !.theta1 = IF theta1 # None /\ theta1 # Some(0) THEN theta1[1] ELSE HALF_PI,
                  !.theta2 = IF theta2 # None /\ theta2 # Some(0) THEN theta2[1] ELSE HALF_PI,
                  !.omega1 = 0, !.omega2 = 0])

\* reset(theta1=None, theta2=None)
reset(p, theta1, theta2) ==
    set_initial_energy(
        [p EXCEPT !.theta1 = IF theta1 # None THEN theta1[1] ELSE HALF_PI,
                  !.theta2 = IF theta2 # None THEN theta2[1] ELSE HALF_PI,
                  !.omega1 = 0, !.omega2 = 0])

\* math.hypot(x, y) on integers: the largest r with r * r <= n
RECURSIVE SqrtSearch(_, _, _)
SqrtSearch(lo, hi, n) ==
    IF hi - lo <= 1 THEN lo
    ELSE LET mid == (lo + hi) \div 2
         IN  IF mid * mid <= n THEN SqrtSearch(mid, hi, n)
                               ELSE SqrtSearch(lo, mid, n)

Isqrt(n) == SqrtSearch(0, 46341, n)

\* math.hypot(x, y); beyond 3 m (0.0001 m) the squares are taken of the quarters,
\* which keeps them in 32 bits
Hypot(x, y) ==
    IF Max2(Abs(x), Abs(y)) <= 30000 THEN Isqrt(x * x + y * y)
    ELSE 4 * Isqrt((x \div 4) * (x \div 4) + (y \div 4) * (y \div 4))

\* The least angle of [0, pi] (0.001 rad) whose cosine is at most c, or hi when
\* there is none, by bisection (the cosine falls on [0, pi])
RECURSIVE AcosSearch(_, _, _)
AcosSearch(lo, hi, c) ==
    IF hi - lo <= 1 THEN hi
    ELSE LET mid == (lo + hi) \div 2
         IN  IF CosMrad(mid) <= c THEN AcosSearch(lo, mid, c)
                                  ELSE AcosSearch(mid, hi, c)

\* math.acos of c (0.001) in 0.00001 rad: the middle of the angles whose cosine
\* rounds to c; acos(1) = 0 and acos(-1) = pi
Acos(c) ==
    IF c >= 1000 THEN 0
    ELSE IF c <= -1000 THEN PI
    ELSE 50 * (AcosSearch(-1, PI_MRAD + 1, c)
               + AcosSearch(-1, PI_MRAD + 1, c - 1) - 1)

\* math.atan2(y, x) in 0.00001 rad, r = hypot(x, y)
atan2_r(y, x, r) ==
    IF r = 0 THEN 0
    ELSE (IF y >= 0 THEN 1 ELSE -1)
         * Acos(Max2(-1000, Min2(1000, Rnd(1000 * x, r))))

Atan2(y, x) == atan2_r(y, x, Hypot(x, y))

\* ------------------------------------------------------------------------
\* Slider
\* ------------------------------------------------------------------------

\* the seven sliders of _build_controls, in the order of self.sliders
SliderNames == {"L1", "L2", "m1", "m2", "g", "d", "t"}

\* min_value, max_value and step of each slider, in the slider's own unit
SliderMin  == [L1 |-> 40,  L2 |-> 40,  m1 |-> 10,  m2 |-> 10,  g |-> 50,   d |-> 0,   t |-> 5]
SliderMax  == [L1 |-> 250, L2 |-> 250, m1 |-> 100, m2 |-> 100, g |-> 2500, d |-> 100, t |-> 60]
SliderStep == [L1 |-> 1,   L2 |-> 1,   m1 |-> 1,   m2 |-> 1,   g |-> 10,   d |-> 1,   t |-> 1]

\* the slider's unit in 0.0001, the unit of a typed number
SliderUnit == [L1 |-> 100, L2 |-> 100, m1 |-> 500, m2 |-> 500, g |-> 100, d |-> 5, t |-> 500]

\* self.defaults
defaults == [L1 |-> 100, L2 |-> 100, m1 |-> 20, m2 |-> 20, g |-> 981, d |-> 20, t |-> 20]

\* Slider._update_value_from_pos(x): pct is (x - rect.x) / rect.w in 0.001
update_value_from_pos(n, pct) ==
    LET pc    == Max2(0, Min2(1000, pct))
        steps == Rnd(pc * (SliderMax[n] - SliderMin[n]), 1000 * SliderStep[n])
        raw   == SliderMin[n] + steps * SliderStep[n]
    IN  Max2(SliderMin[n], Min2(SliderMax[n], raw))

\* ------------------------------------------------------------------------
\* Simulator: trail buffer
\* ------------------------------------------------------------------------

\* Three fields of the simulator state record what the handler of the current
\* event did: trace, the operations it went through, and step_calls, the dt
\* of every pendulum.step call it made; dt_target is the interval the sub-step
\* loop of run() was given. They are emptied when a handler starts.
traced(s, name) == [s EXCEPT !.trace = Append(s.trace, name)]

\* self.pendulum.step(dt)
pendulum_step(s, dt) ==
    [s EXCEPT !.pendulum = step(s.pendulum, dt),
              !.step_calls = Append(s.step_calls, dt)]

\* _current_point(): the end mass (x2, y2)
current_point(s) ==
    LET pos == positions(s.pendulum) IN <<pos[3], pos[4]>>

\* _append_current_point()
append_current_point(s) ==
    [s EXCEPT !.trail_history = Append(@, current_point(s)),
              !.trail_index = Len(s.trail_history) + 1,
              !.last_trail_index = Len(s.trail_history) + 1]

\* A faulty _reset_trail_with_current that keeps the old samples; the property
\* of the discontinuous edits must tell it from the real one.
reset_trail_keeping_samples(s) ==
    append_current_point(traced(s, "reset_trail"))

\* _reset_trail_with_current()
reset_trail_with_current(s) ==
    append_current_point([traced(s, "reset_trail") EXCEPT
                              !.trail_history = <<>>, !.trail_index = 0,
                              !.last_trail_index = 0])

\* self._last_trail_index = self.trail_index
set_last_trail_index(s) == [s EXCEPT !.last_trail_index = s.trail_index]

\* A faulty _advance_trail_forward that always appends; the property of
\* advance must tell it from the real one.
advance_trail_always_append(s) ==
    traced(set_last_trail_index(append_current_point(s)), "advance")

\* A faulty _advance_trail_forward that moves the cursor over a sample of
\* before the rewind without refreshing it; the property of the last visible
\* sample must tell it from the real one.
advance_trail_keeping_sample(s) ==
    traced(set_last_trail_index(
               IF s.trail_index < Len(s.trail_history)
               THEN [s EXCEPT !.trail_index = s.trail_index + 1]
               ELSE append_current_point(s)),
           "advance")

\* _advance_trail_forward(); trail_history[i] of the code is trail_history[i + 1] here
advance_trail_forward(s) ==
    traced(set_last_trail_index(
               IF s.trail_index < Len(s.trail_history)
               THEN [s EXCEPT !.trail_history[s.trail_index + 1] = current_point(s),
                              !.trail_index = s.trail_index + 1]
               ELSE append_current_point(s)),
           "advance")

\* A faulty _update_trail that records nothing; the property of the running
\* segment must tell it from the real one.
update_trail_nothing(s) == set_last_trail_index(s)

\* _update_trail()
update_trail(s) == set_last_trail_index(advance_trail_forward(s))

\* Three faulty backward branches; the properties of the cursor's range, of
\* step_back and of the rewind/redo sequence must tell them from the real one.
\* The first has no floor at 1.
step_back_no_floor(s) ==
    traced([s EXCEPT !.trail_index = s.trail_index - 1,
                     !.rewind_in_progress = TRUE],
           "step_back")

\* The second leaves the sample under the cursor as it was.
step_back_stale_sample(s) ==
    traced([s EXCEPT !.trail_index = Max2(1, s.trail_index - 1),
                     !.rewind_in_progress = TRUE],
           "step_back")

\* The third drops the samples after the cursor.
step_back_truncating(s) ==
    traced([s EXCEPT !.trail_index = Max2(1, s.trail_index - 1),
                     !.trail_history =
                         [SubSeq(@, 1, Max2(1, s.trail_index - 1))
                              EXCEPT ![Max2(1, s.trail_index - 1)] = current_point(s)],
                     !.rewind_in_progress = TRUE],
           "step_back")

\* the backward branch of _step_frame: move the cursor back, not below 1, and
\* put the current point under it
step_back_trail(s) ==
    traced([s EXCEPT !.trail_index = Max2(1, s.trail_index - 1),
                     !.trail_history =
                         IF s.trail_history # <<>>
                         THEN [@ EXCEPT ![Max2(1, s.trail_index - 1)] = current_point(s)]
                         ELSE @,
                     !.rewind_in_progress = TRUE],
           "step_back")

\* _step_frame, after pendulum.step(dt)
step_frame_trail(s, dt) ==
    set_last_trail_index(IF dt > 0 THEN advance_trail_forward(s)
                                   ELSE step_back_trail(s))

\* _step_frame(direction), direction +1 or -1; dt is (1.0 / 60.0) * time_scale
\* * direction
step_frame(s, direction) ==
    step_frame_trail(
        [pendulum_step(s, 50 * s.time_scale * direction) EXCEPT
             !.paused = TRUE,
             !.sim_time = Max2(0, @ + 50 * s.time_scale * direction)],
        50 * s.time_scale * direction)

\* ------------------------------------------------------------------------
\* Simulator: sliders, reset, randomize
\* ------------------------------------------------------------------------

\* _sync_from_sliders: the trail is reset when a length changed, from s to t.
\* The trace tells which parameters changed.
sync_changes(s, t) ==
    LET u == IF t.pendulum.m1 # s.pendulum.m1 \/ t.pendulum.m2 # s.pendulum.m2
                \/ t.pendulum.g # s.pendulum.g
             THEN traced(t, "mass_or_gravity_changed")
             ELSE t
    IN  IF t.pendulum.L1 # s.pendulum.L1 \/ t.pendulum.L2 # s.pendulum.L2
        THEN reset_trail_with_current(traced(u, "length_changed"))
        ELSE u

\* _sync_from_sliders()
sync_from_sliders(s) ==
    sync_changes(s,
        [s EXCEPT !.pendulum = set_initial_energy(
                                   [@ EXCEPT !.L1 = s.sliders["L1"], !.L2 = s.sliders["L2"],
                                             !.m1 = s.sliders["m1"], !.m2 = s.sliders["m2"],
                                             !.g = s.sliders["g"],
                                             !.damping = s.sliders["d"]]),
                  !.time_scale = s.sliders["t"],
                  !.default_damping = s.sliders["d"]])

\* _reset_from_sliders(theta1, theta2)
reset_from_sliders(s, theta1, theta2) ==
    [reset_trail_with_current(
         [sync_from_sliders(s) EXCEPT
              !.pendulum = set_initial_energy(reset(@, theta1, theta2)),
              !.sim_time = 0])
     EXCEPT !.rewind_in_progress = FALSE]

\* _randomize_sliders_only(); vals are the values random.uniform returns
randomize_sliders_only(s, vals) ==
    [reset_trail_with_current(
         [sync_from_sliders([traced(s, "randomize_sliders_only") EXCEPT
                                 !.sliders = vals])
          EXCEPT !.pendulum = set_initial_energy([@ EXCEPT !.omega1 = 0, !.omega2 = 0])])
     EXCEPT !.rewind_in_progress = FALSE]

\* _reset_to_defaults()
reset_to_defaults(s) ==
    [reset_from_sliders(
         [traced(s, "reset_to_defaults") EXCEPT
              !.sliders = defaults, !.time_scale = defaults["t"],
              !.pendulum = [@ EXCEPT !.damping = defaults["d"], !.g = defaults["g"]]],
         Some(HALF_PI), Some(HALF_PI))
     EXCEPT !.paused = TRUE, !.sim_time = 0, !.rewind_in_progress = FALSE]

\* ------------------------------------------------------------------------
\* Simulator: dragging a mass (inverse kinematics)
\* ------------------------------------------------------------------------

\* A pointer position is given by the point it maps to in the pendulum's frame,
\* (pos - origin) / scale, in 0.0001 m.

\* A faulty mid-joint drag that leaves theta2 where it was; the property of the
\* offset must tell it from the real one.
apply_drag_mid_theta1_only(s, theta1) ==
    [traced(s, "apply_drag_mid") EXCEPT
         !.pendulum = [@ EXCEPT !.theta1 = theta1, !.omega1 = 0, !.omega2 = 0]]

\* _apply_drag_mid: theta1 is set and theta2 - theta1 is kept
apply_drag_mid_theta1(s, theta1) ==
    [traced(s, "apply_drag_mid") EXCEPT
         !.pendulum = [@ EXCEPT !.theta1 = theta1,
                                !.theta2 = theta1 + (s.pendulum.theta2 - s.pendulum.theta1),
                                !.omega1 = 0, !.omega2 = 0]]

\* _apply_drag_mid(pos)
apply_drag_mid(s, pos) == apply_drag_mid_theta1(s, Atan2(pos[1], pos[2]))

\* _apply_drag_end: the angles from theta1_x and elbow
apply_drag_end_angles(s, elbow, theta1_x) ==
    [traced(s, "apply_drag_end") EXCEPT
         !.pendulum = [@ EXCEPT !.theta1 = HALF_PI - theta1_x,
                                !.theta2 = HALF_PI - (theta1_x + elbow),
                                !.omega1 = 0, !.omega2 = 0]]

\* _apply_drag_end: theta1_x from elbow; both arguments of the second atan2
\* are in 0.0002 m
apply_drag_end_elbow(s, pos, elbow) ==
    apply_drag_end_angles(s, elbow,
        Atan2(pos[2], pos[1])
        - Atan2(Rnd(s.pendulum.L2 * Sin(elbow), 20),
                Rnd(1000 * s.pendulum.L1 + s.pendulum.L2 * Cos(elbow), 20)))

\* _apply_drag_end: cos_elbow (0.001) from r in mm
cos_elbow(L1, L2, rm) ==
    Max2(-1000, Min2(1000, Rnd((rm * rm - 100 * L1 * L1 - 100 * L2 * L2) * 10,
                               2 * L1 * L2)))

\* A faulty clamp without the lower bound; the property of the clamp must tell
\* it from the real one.
drag_radius_no_floor(L1, L2, r) == Min2(r, 100 * (L1 + L2) - 1)

\* _apply_drag_end: r = min(max(r, abs(L1 - L2) + 1e-4), L1 + L2 - 1e-4), r in
\* 0.0001 m
drag_radius(L1, L2, r) ==
    Min2(Max2(r, 100 * Abs(L1 - L2) + 1), 100 * (L1 + L2) - 1)

\* _apply_drag_end(pos); pos is (x, y) of the code, in 0.0001 m
apply_drag_end(s, pos) ==
    apply_drag_end_elbow(s, pos,
        Acos(cos_elbow(s.pendulum.L1, s.pendulum.L2,
                 Rnd(drag_radius(s.pendulum.L1, s.pendulum.L2,
                                 Hypot(pos[1], pos[2])),
                     10))))

\* self.panel_width
PANEL_WIDTH == 340

\* the layout after _on_resize(w, h): the clamps on the size, _auto_collapse
\* and _update_layout
layout(w, h) ==
    LET width     == Max2(w, PANEL_WIDTH + 480)
        height    == Max2(h, 640)
        collapsed == width < PANEL_WIDTH + 520
        render_width == width - (IF collapsed THEN 0 ELSE PANEL_WIDTH)
    IN  [render_width |-> render_width, height |-> height, collapsed |-> collapsed,
         origin |-> <<render_width \div 2, Max2(140, (height * 18) \div 100)>>]

\* _compute_scale() in 0.1 pixel per metre
compute_scale(win, L1, L2) ==
    Rnd(750 * Min2(win.render_width - 140, win.height - 260), Max2(L1 + L2, 10))

\* (pos - origin) / scale of _apply_drag_end, in 0.0001 m; the division raises
\* ZeroDivisionError when scale is 0
world_point(pos, origin, scale) ==
    <<Rnd(100000 * (pos[1] - origin[1]), scale), Rnd(100000 * (pos[2] - origin[2]), scale)>>

\* _begin_drag_if_hit(pos); hit says which mass lies within 20 pixels of pos
begin_drag_if_hit(s, hit) ==
    IF hit = "mass_end"
    THEN [s EXCEPT !.dragging_end = TRUE, !.dragging_mid = FALSE]
    ELSE IF hit = "mass_mid"
    THEN [s EXCEPT !.dragging_mid = TRUE, !.dragging_end = FALSE]
    ELSE s

\* _drag_update(pos)
drag_update(s, pos) ==
    [reset_trail_with_current(IF s.dragging_end THEN apply_drag_end(s, pos)
                              ELSE IF s.dragging_mid THEN apply_drag_mid(s, pos)
                              ELSE s)
     EXCEPT !.pendulum = set_initial_energy(@), !.rewind_in_progress = FALSE]

\* ------------------------------------------------------------------------
\* Simulator: text entry, resize, panel
\* ------------------------------------------------------------------------

\* A faulty commit that stores the typed number without the clamp to the
\* slider's range; the property of the parameters must tell it from the real
\* one.
commit_input_buffer_unclamped(s, text) ==
    IF s.active_input_slider = "none" THEN s
    ELSE IF ~text.valid THEN [s EXCEPT !.active_input_slider = "none"]
    ELSE sync_from_sliders(
             [s EXCEPT !.sliders[s.active_input_slider] =
                           Rnd(text.value, SliderUnit[s.active_input_slider]),
                       !.active_input_slider = "none"])

\* _commit_input_buffer(); text.value is float(self.input_buffer) in 0.0001, and
\* text.valid is FALSE when float() raises ValueError
commit_input_buffer(s, text) ==
    IF s.active_input_slider = "none" THEN s
    ELSE IF ~text.valid THEN [s EXCEPT !.active_input_slider = "none"]
    ELSE LET n     == s.active_input_slider
             u     == SliderUnit[n]
             val   == Max2(SliderMin[n] * u, Min2(SliderMax[n] * u, text.value))
             steps == Rnd(val - SliderMin[n] * u, SliderStep[n] * u)
         IN  sync_from_sliders(
                 [s EXCEPT !.sliders[n] = SliderMin[n] + steps * SliderStep[n],
                           !.active_input_slider = "none"])

\* _handle_text_input(event) when a slider's input box is active (it returns
\* True for every key then); other keys edit the buffer, which is the text of
\* the Return that ends the entry
handle_text_input(s, key, text) ==
    IF key = "return" THEN commit_input_buffer(s, text)
    ELSE IF key = "escape" THEN [s EXCEPT !.active_input_slider = "none"]
    ELSE s

\* _on_resize(w, h); collapsed is w < panel_width + 520 after the minimum width
\* is enforced. _build_controls makes new sliders (not dragging) and the saved
\* values are put back.
on_resize(s, collapsed) ==
    sync_from_sliders([s EXCEPT !.panel_collapsed = collapsed,
                                !.slider_dragging = [n \in SliderNames |-> FALSE]])

\* _toggle_panel()
toggle_panel(s) ==
    IF s.panel_collapsed
    THEN [s EXCEPT !.panel_collapsed = FALSE]
    ELSE [s EXCEPT !.panel_collapsed = TRUE, !.active_input_slider = "none"]

\* ------------------------------------------------------------------------
\* Simulator: keyboard
\* ------------------------------------------------------------------------

\* the time scales the S key cycles through
options == <<5, 10, 20, 30, 40>>

\* _handle_key(key); angles are the two values random.uniform returns for N
handle_key(s, key, angles) ==
    IF s.about_visible /\ key \in {"escape", "return"}
    THEN [s EXCEPT !.about_visible = FALSE]
    ELSE IF key = "space" THEN [s EXCEPT !.paused = ~s.paused]
    ELSE IF key = "r" THEN reset_to_defaults(s)
    ELSE IF key = "t" THEN [s EXCEPT !.show_trail = ~s.show_trail]
    ELSE IF key = "minus"
    THEN [traced(s, "gravity_key") EXCEPT !.pendulum.g = Max2(50, s.pendulum.g - 50)]
    ELSE IF key = "plus"
    THEN [traced(s, "gravity_key") EXCEPT !.pendulum.g = Min2(3000, s.pendulum.g + 50)]
    ELSE IF key = "d"
    THEN [s EXCEPT !.pendulum.damping =
                       IF s.pendulum.damping > 0 THEN 0 ELSE s.default_damping]
    ELSE IF key = "s"
    THEN LET found == {i \in 1..Len(options) : options[i] = s.time_scale}
             idx   == IF found # {} THEN CHOOSE i \in found : TRUE ELSE 3
         IN  [s EXCEPT !.time_scale = options[(idx % Len(options)) + 1]]
    ELSE IF key = "c" THEN reset_trail_with_current(traced(s, "clear"))
    ELSE IF key = "n"
    THEN reset_trail_with_current(
             [traced(s, "randomize") EXCEPT
                  !.pendulum = reset(s.pendulum, Some(angles[1]), Some(angles[2])),
                  !.paused = FALSE, !.sim_time = 0])
    ELSE s

\* the KEYDOWN branch of run(): _handle_text_input takes the key when a
\* slider's input box is active
key_event(s, key, text, angles) ==
    IF s.active_input_slider # "none"
    THEN handle_text_input(s, key, text)
    ELSE handle_key(s, key, angles)

\* ------------------------------------------------------------------------
\* Simulator: mouse
\* ------------------------------------------------------------------------

\* A mouse event of the left button: type is "down", "up" or "motion"; target
\* names what lies under the pointer of a "down" event; pos is the pointer in
\* the pendulum's frame; name is the slider of a "slider", "label" or "input"
\* target; pct is the pointer's place along the slider tracks (0.001); vals are
\* the values random.uniform returns when the Randomize button is hit.

\* the button branch of _handle_mouse
handle_buttons(s, ev) ==
    IF ev.type # "down" THEN s
    ELSE IF ev.target = "step_back" THEN step_frame(s, -1)
    ELSE IF ev.target = "start" THEN [s EXCEPT !.paused = ~s.paused]
    ELSE IF ev.target = "step_forward" THEN step_frame(s, 1)
    ELSE IF ev.target = "reset" THEN reset_to_defaults(s)
    ELSE IF ev.target = "random"
    THEN [randomize_sliders_only(s, ev.vals) EXCEPT !.paused = TRUE, !.sim_time = 0]
    ELSE IF ev.target = "about" THEN [s EXCEPT !.about_visible = TRUE]
    ELSE s

\* Slider.handle_event(event) for every slider of self.sliders
sliders_handle_event(s, ev) ==
    IF ev.type = "down" /\ ev.target = "slider"
    THEN [s EXCEPT !.slider_dragging[ev.name] = TRUE,
                   !.sliders[ev.name] = update_value_from_pos(ev.name, ev.pct)]
    ELSE IF ev.type = "up"
    THEN [s EXCEPT !.slider_dragging = [n \in SliderNames |-> FALSE]]
    ELSE IF ev.type = "motion"
    THEN [s EXCEPT !.sliders = [n \in SliderNames |->
                                   IF s.slider_dragging[n]
                                   THEN update_value_from_pos(n, ev.pct)
                                   ELSE s.sliders[n]]]
    ELSE s

\* the slider branch of _handle_mouse, after Slider.handle_event: a press on a
\* label or an input box starts text entry and returns; another press ends it
handle_sliders_input(s, ev) ==
    IF ev.type = "down" /\ ev.target \in {"label", "input"}
    THEN [s EXCEPT !.active_input_slider = ev.name]
    ELSE sync_from_sliders(
             IF ev.type = "down" /\ s.active_input_slider # "none"
             THEN [s EXCEPT !.active_input_slider = "none"]
             ELSE s)

\* the slider branch of _handle_mouse
handle_sliders(s, ev) == handle_sliders_input(sliders_handle_event(s, ev), ev)

\* the drag branch of _handle_mouse: dragging is only allowed while paused
handle_drag(s, ev) ==
    IF ~s.paused THEN s
    ELSE IF ev.type = "down" THEN begin_drag_if_hit(s, ev.target)
    ELSE IF ev.type = "motion" THEN drag_update(s, ev.pos)
    ELSE [s EXCEPT !.dragging_end = FALSE, !.dragging_mid = FALSE]

\* _handle_mouse after the buttons: the sliders, unless the panel is collapsed
handle_panel(s, ev) ==
    IF s.panel_collapsed THEN s ELSE handle_sliders(s, ev)

\* _handle_mouse after the drag branch: a press while paused with a mass being
\* dragged returns, anything else goes on to the buttons
handle_after_drag(s, ev) ==
    IF s.paused /\ ev.type = "down" /\ (s.dragging_end \/ s.dragging_mid)
    THEN s
    ELSE handle_panel(handle_buttons(s, ev), ev)

\* _handle_mouse(event)
handle_mouse(s, ev) ==
    IF ev.type = "down" /\ ev.target = "toggle" THEN toggle_panel(s)
    ELSE IF s.about_visible
    THEN IF ev.type = "down" /\ ev.target # "about_inside"
         THEN [s EXCEPT !.about_visible = FALSE]
         ELSE s
    ELSE handle_after_drag(handle_drag(s, ev), ev)

\* ------------------------------------------------------------------------
\* Simulator: main loop
\* ------------------------------------------------------------------------

\* max_dt of run(): 0.002 s
MAX_DT == 120

\* A faulty sub-step loop whose every sub-step is max_dt; the property of the
\* sub-steps must tell it from the real one.
RECURSIVE substep_loop_whole_steps(_, _)
substep_loop_whole_steps(s, remaining) ==
    IF ~s.paused /\ remaining > 0
    THEN substep_loop_whole_steps(
             [pendulum_step(s, MAX_DT) EXCEPT !.sim_time = s.sim_time + MAX_DT],
             remaining - MAX_DT)
    ELSE s

\* the sub-step loop of run(). It stands under "if not self.paused", which no
\* sub-step changes; the test is repeated with the loop's own, so that the state
\* of an iteration is evaluated before the next one starts.
RECURSIVE substep_loop(_, _)
substep_loop(s, remaining) ==
    IF ~s.paused /\ remaining > 0
    THEN LET dt == Min2(remaining, MAX_DT)
         IN  substep_loop([pendulum_step(s, dt) EXCEPT !.sim_time = s.sim_time + dt],
                          remaining - dt)
    ELSE s

\* the trail part of _draw()
draw(s) ==
    IF s.show_trail /\ s.trail_index > 1
    THEN LET s1 == IF s.paused /\ ~s.rewind_in_progress
                      /\ s.trail_index < s.last_trail_index
                   THEN [s EXCEPT !.trail_index =
                                      Min2(s.last_trail_index, Len(s.trail_history))]
                   ELSE s
         IN  IF s1.paused
             THEN [s1 EXCEPT !.rewind_in_progress = FALSE,
                             !.last_trail_index = s1.trail_index]
             ELSE s1
    ELSE s

\* the body of run() after the events of the frame: integrate and record when
\* not paused, then draw; dt_real is clock.tick(60) in ms
run_frame(s, dt_real) ==
    IF s.paused THEN draw(s)
    ELSE draw(update_trail(substep_loop(
                  [traced(s, "tick") EXCEPT !.dt_target = 3 * dt_real * s.time_scale],
                  3 * dt_real * s.time_scale)))

\* ------------------------------------------------------------------------
\* Bounds and inputs
\* ------------------------------------------------------------------------

\* Every event is charged to a budget of MaxWork. A frame that integrates and a
\* press on a step button cost 2. What resets the trail at no other cost is
\* charged 1: reset, clear, and pointer motion while paused. An event that
\* opens an interaction or edits a parameter costs 7: a press on a mass, a
\* slider, a slider's input box, the About button or the panel tab, a resize,
\* Randomize, and the hotkeys T, +, -, D, S and N. The rest is free: pause and
\* resume, release, Return, Escape, pointer motion while running, and a frame
\* while paused.
MaxWork == 10

\* clock.tick(60) in ms: the clock holds the loop to 60 frames per second
DtReals == {17}

\* pointer positions along the slider tracks (0.001 of the width; the pointer
\* may leave the track)
Pcts == {-50, 620}

\* pointer positions in the pendulum's frame (0.0001 m): within reach of the
\* default pendulum, and beyond it
Positions == {<<12000, -5000>>, <<30000, 30000>>}

\* float(self.input_buffer) in 0.0001: not a number, negative, and 1.2345
Texts == {[valid |-> FALSE, value |-> 0], [valid |-> TRUE, value |-> -10000],
          [valid |-> TRUE, value |-> 12345]}
NoText == [valid |-> FALSE, value |-> 0]

\* random.uniform(-math.pi, math.pi) for theta1 and theta2
RandomAngles == {<<-200000, 100000>>}
NoAngles == <<0, 0>>

\* random.uniform(min_value, max_value) for the seven sliders
RandomValues ==
    {[L1 |-> 57,  L2 |-> 212, m1 |-> 83, m2 |-> 14, g |-> 1733, d |-> 61, t |-> 47]}

\* ------------------------------------------------------------------------
\* State
\* ------------------------------------------------------------------------

VARIABLES
    sim,        \* the Simulator object, its pendulum and its sliders
    work,       \* the budget used so far
    hist        \* history of the trail operations (not program state)

vars == <<sim, work, hist>>

\* DoublePendulum(L1=1.0, L2=1.0, m1=1.0, m2=1.0, damping=0.01) after reset()
InitPendulum ==
    reset([m1 |-> 20, m2 |-> 20, L1 |-> 100, L2 |-> 100, g |-> 981, damping |-> 20,
           theta1 |-> HALF_PI, theta2 |-> HALF_PI, omega1 |-> 0, omega2 |-> 0,
           initial_energy |-> 0],
          None, None)

\* Simulator.__init__() on a display wide enough for the panel to start open
InitSim ==
    LET s == [pendulum |-> InitPendulum,
              sliders |-> [L1 |-> 100, L2 |-> 100, m1 |-> 20, m2 |-> 20,
                           g |-> 981, d |-> 20, t |-> 20],
              slider_dragging |-> [n \in SliderNames |-> FALSE],
              trail_history |-> <<>>, trail_index |-> 0, last_trail_index |-> 0,
              rewind_in_progress |-> FALSE, paused |-> TRUE,
              show_trail |-> TRUE,
              time_scale |-> 20, sim_time |-> 0, default_damping |-> 20,
              about_visible |-> FALSE, dragging_end |-> FALSE, dragging_mid |-> FALSE,
              active_input_slider |-> "none", panel_collapsed |-> FALSE,
              trace |-> <<>>, step_calls |-> <<>>, dt_target |-> 0]
    IN  [reset_trail_with_current(s) EXCEPT !.trace = <<>>]

\* ------------------------------------------------------------------------
\* History of the trail operations
\* ------------------------------------------------------------------------

InTrace(s, names) == \E i \in 1..Len(s.trace) : s.trace[i] \in names

\* hist.rr follows a rewind/redo sequence: after _reset_trail_with_current,
\* phase "adv" counts n advances; then phase "back" counts k <= n backward
\* steps; then phase "redo" counts j <= k advances. Anything else ends the
\* sequence (phase "off").
RRStart == [phase |-> "adv", n |-> 0, k |-> 0, j |-> 0]
RROff == [phase |-> "off", n |-> 0, k |-> 0, j |-> 0]

RRStep(r, op) ==
    IF op = "reset_trail" THEN RRStart
    ELSE IF op = "advance"
    THEN IF r.phase = "adv" THEN [r EXCEPT !.n = r.n + 1]
         ELSE IF r.phase = "back" THEN [r EXCEPT !.phase = "redo", !.j = 1]
         ELSE IF r.phase = "redo" /\ r.j < r.k THEN [r EXCEPT !.j = r.j + 1]
         ELSE RROff
    ELSE IF op = "step_back"
    THEN IF r.phase = "adv" /\ r.n >= 1 THEN [r EXCEPT !.phase = "back", !.k = 1]
         ELSE IF r.phase = "back" /\ r.k < r.n THEN [r EXCEPT !.k = r.k + 1]
         ELSE RROff
    ELSE r

RECURSIVE RRFold(_, _)
RRFold(r, ops) ==
    IF ops = <<>> THEN r ELSE RRFold(RRStep(r, Head(ops)), Tail(ops))

\* the operations that may shorten the trail between a pause and the resume:
\* reset, randomize, clear, a drag of a mass, a change of a link length, and a
\* backward frame step
Shortening ==
    {"reset_to_defaults", "randomize", "randomize_sliders_only", "clear",
     "apply_drag_mid", "apply_drag_end", "length_changed", "step_back"}

\* hist.paused_at: the trail index at which the running simulation was paused,
\* or -1 when it runs, or when one of the Shortening operations came since
PausedAt(s) ==
    IF ~s.paused \/ InTrace(s, Shortening) THEN -1
    ELSE IF ~sim.paused THEN sim.trail_index
    ELSE hist.paused_at

\* hist.seg_index: the trail index after the last tick of the running segment,
\* or -1 outside of one; hist.seg_clean: no _reset_trail_with_current since
\* that tick
SegIndex(s) ==
    IF InTrace(s, {"tick"}) THEN s.trail_index
    ELSE IF s.paused THEN -1
    ELSE hist.seg_index

SegClean(s) ==
    IF InTrace(s, {"tick"}) \/ s.paused THEN TRUE
    ELSE hist.seg_clean /\ ~InTrace(s, {"reset_trail"})

\* hist.seg_ticks: the ticks of the running segment so far
SegTicks(s) ==
    IF s.paused THEN 0
    ELSE IF InTrace(s, {"tick"}) THEN hist.seg_ticks + 1
    ELSE hist.seg_ticks

HistInit ==
    [rr |-> RRStart, paused_at |-> -1, seg_index |-> -1, seg_clean |-> TRUE,
     seg_ticks |-> 0]

Init ==
    /\ sim = InitSim
    /\ work = 0
    /\ hist = HistInit

\* the state a handler starts from
Start == [sim EXCEPT !.trace = <<>>, !.step_calls = <<>>, !.dt_target = 0]

\* one event: the handler's result s, at the given cost
Handle(s, cost) ==
    /\ work + cost <= MaxWork
    /\ sim' = s
    /\ work' = work + cost
    /\ hist' = [rr |-> RRFold(hist.rr, s.trace), paused_at |-> PausedAt(s),
                seg_index |-> SegIndex(s), seg_clean |-> SegClean(s),
                seg_ticks |-> SegTicks(s)]

\* a mouse event
Mouse(type, target, name, pct, pos, vals) ==
    [type |-> type, target |-> target, name |-> name, pct |-> pct, pos |-> pos,
     vals |-> vals]

Down(target) == Mouse("down", target, "none", 0, <<0, 0>>, defaults)

\* ------------------------------------------------------------------------
\* Actions
\* ------------------------------------------------------------------------

\* one pass of the loop of run() after its events
Frame ==
    \E dt_real \in DtReals :
        Handle(run_frame(Start, dt_real), IF sim.paused THEN 0 ELSE 2)

KeySpace  == Handle(key_event(Start, "space", NoText, NoAngles), 0)
KeyR      == Handle(key_event(Start, "r", NoText, NoAngles), 1)
KeyT      == Handle(key_event(Start, "t", NoText, NoAngles), 7)
KeyMinus  == Handle(key_event(Start, "minus", NoText, NoAngles), 7)
KeyPlus   == Handle(key_event(Start, "plus", NoText, NoAngles), 7)
KeyD      == Handle(key_event(Start, "d", NoText, NoAngles), 7)
KeyS      == Handle(key_event(Start, "s", NoText, NoAngles), 7)
KeyC      == Handle(key_event(Start, "c", NoText, NoAngles), 1)
KeyN      == \E angles \in RandomAngles :
                 Handle(key_event(Start, "n", NoText, angles), 7)
KeyEscape == Handle(key_event(Start, "escape", NoText, NoAngles), 0)
KeyReturn == \E text \in Texts :
                 Handle(key_event(Start, "return", text, NoAngles), 0)

MouseDownToggle == Handle(handle_mouse(Start, Down("toggle")), 7)
MouseDownMass ==
    \E target \in {"mass_end", "mass_mid"} :
        Handle(handle_mouse(Start, Down(target)), 7)
\* a press on nothing, or on Toggle Arrows (show_arrows is read by drawing only)
MouseDownEmpty == Handle(handle_mouse(Start, Down("empty")), 0)
MouseDownStepBack == Handle(handle_mouse(Start, Down("step_back")), 2)
MouseDownStart == Handle(handle_mouse(Start, Down("start")), 0)
MouseDownStepForward == Handle(handle_mouse(Start, Down("step_forward")), 2)
MouseDownReset == Handle(handle_mouse(Start, Down("reset")), 1)
MouseDownRandom ==
    \E vals \in RandomValues :
        Handle(handle_mouse(Start, Mouse("down", "random", "none", 0, <<0, 0>>, vals)), 7)
MouseDownAbout == Handle(handle_mouse(Start, Down("about")), 7)
\* a press on the popup: its Close button, or the box around it
MouseDownPopup ==
    /\ sim.about_visible
    /\ \E target \in {"about_close", "about_inside"} :
           Handle(handle_mouse(Start, Down(target)), 0)
MouseDownSlider ==
    \E name \in SliderNames, pct \in Pcts :
        Handle(handle_mouse(Start, Mouse("down", "slider", name, pct, <<0, 0>>, defaults)), 7)
MouseDownLabel ==
    \E name \in SliderNames, target \in {"label", "input"} :
        Handle(handle_mouse(Start, Mouse("down", target, name, 0, <<0, 0>>, defaults)), 7)
MouseUp ==
    Handle(handle_mouse(Start, Mouse("up", "none", "none", 0, <<0, 0>>, defaults)), 0)
MouseMotion ==
    \E pos \in Positions, pct \in Pcts :
        Handle(handle_mouse(Start, Mouse("motion", "none", "none", pct, pos, defaults)),
               IF sim.paused THEN 1 ELSE 0)
Resize ==
    \E collapsed \in BOOLEAN : Handle(on_resize(Start, collapsed), 7)

Next ==
    \/ Frame
    \/ KeySpace \/ KeyR \/ KeyT \/ KeyMinus \/ KeyPlus \/ KeyD \/ KeyS
    \/ KeyC \/ KeyN \/ KeyEscape \/ KeyReturn
    \/ MouseDownToggle \/ MouseDownMass \/ MouseDownEmpty \/ MouseDownStepBack
    \/ MouseDownStart \/ MouseDownStepForward \/ MouseDownReset \/ MouseDownRandom
    \/ MouseDownAbout \/ MouseDownPopup \/ MouseDownSlider \/ MouseDownLabel
    \/ MouseUp \/ MouseMotion \/ Resize

Spec == Init /\ [][Next]_vars

\* ------------------------------------------------------------------------
\* The sub-step loop over the frame times and the time scales
\* ------------------------------------------------------------------------

\* the longest frame time in ms
MaxDtReal == 40

\* the running simulation at any value of the time-scale slider
SubstepInit ==
    /\ \E t \in SliderMin["t"]..SliderMax["t"] :
           sim = [InitSim EXCEPT !.paused = FALSE, !.time_scale = t, !.sliders["t"] = t]
    /\ work = 0
    /\ hist = HistInit

\* one frame of run() with no event
SubstepFrame ==
    /\ work = 0
    /\ \E dt_real \in 0..MaxDtReal : sim' = run_frame(Start, dt_real)
    /\ work' = 1
    /\ UNCHANGED hist

SubstepSpec == SubstepInit /\ [][SubstepFrame]_vars

\* ------------------------------------------------------------------------
\* Properties of the trail buffer
\* ------------------------------------------------------------------------

\* C1: in every reachable state the cursor of the trail lies within the
\* buffer, 0 <= trail_index <= len(trail_history).
TrailIndexWithinBuffer ==
    /\ 0 <= sim.trail_index
    /\ sim.trail_index <= Len(sim.trail_history)

\* a backward step has brought the cursor down to the floor, with later
\* samples still in the buffer
TrailIndexAtFloorAfterRewind ==
    /\ InTrace(sim, {"step_back"})
    /\ sim.trail_index = 1
    /\ Len(sim.trail_history) >= 3

\* C2: an event whose handler advances the trail raises the cursor by exactly
\* one; when the cursor was below the length, the sample at the cursor is
\* replaced by the live point and the length and the other samples stay;
\* otherwise the live point is appended and the cursor becomes the new length.
AdvanceOverwritesOrAppends ==
    [][InTrace(sim', {"advance"}) =>
          /\ sim'.trail_index = sim.trail_index + 1
          /\ IF sim.trail_index < Len(sim.trail_history)
             THEN sim'.trail_history =
                      [sim.trail_history EXCEPT ![sim.trail_index + 1] = current_point(sim')]
             ELSE /\ sim'.trail_history = Append(sim.trail_history, current_point(sim'))
                  /\ sim'.trail_index = Len(sim'.trail_history)]_vars

\* an advance has overwritten a sample and stale samples are still ahead of
\* the cursor
AdvanceOverwroteBelowLength ==
    /\ InTrace(sim, {"advance"})
    /\ hist.rr.phase = "redo"
    /\ sim.trail_index < Len(sim.trail_history)

\* C3: a backward frame step sets the cursor to max(1, index - 1) and puts the
\* live point, taken after the backward integration, under the new cursor; the
\* length and the other samples stay. At index 1 the cursor stays and sample 0
\* is overwritten.
StepBackMovesCursorAndOverwrites ==
    [][InTrace(sim', {"step_back"}) =>
          /\ sim'.trail_index = Max2(1, sim.trail_index - 1)
          /\ sim'.trail_history =
                 [sim.trail_history EXCEPT ![sim'.trail_index] = current_point(sim')]]_vars

\* a backward step from an index above 1, whose sample differs from the one
\* it replaced
StepBackOverwroteSample ==
    /\ InTrace(sim, {"step_back"})
    /\ hist.rr.phase = "back"
    /\ hist.rr.n = 2
    /\ sim.trail_index = 2
    /\ Len(sim.trail_history) = 3

\* the operations that edit the state discontinuously: Reset (key or button),
\* Randomize (key or button), a drag update of a mass, the clear key, and a
\* change of a link length
DiscontinuousEdits ==
    {"reset_to_defaults", "randomize", "randomize_sliders_only", "clear",
     "apply_drag_mid", "apply_drag_end", "length_changed"}

\* C4: after an event whose handler made a discontinuous edit, the trail is
\* exactly one sample, the current position of the end mass, and the cursor
\* is 1.
TrailIsOneSampleAfterEdit ==
    InTrace(sim, DiscontinuousEdits) =>
        /\ sim.trail_history = <<current_point(sim)>>
        /\ sim.trail_index = 1

\* the end mass has been dragged after the pendulum had moved
EndMassDraggedAfterMotion ==
    /\ InTrace(sim, {"apply_drag_end"})
    /\ sim.sim_time > 0

\* C5: after _reset_trail_with_current and n advances the cursor and the
\* length are n + 1; k <= n backward steps then leave the cursor at n + 1 - k
\* and the length at n + 1; the advances that follow overwrite, so that after
\* k of them the cursor and the length are n + 1 again. The sample under the
\* cursor is the live point throughout.
RewindRedoKeepsLength ==
    /\ hist.rr.phase = "adv" =>
           /\ sim.trail_index = hist.rr.n + 1
           /\ Len(sim.trail_history) = hist.rr.n + 1
    /\ hist.rr.phase = "back" =>
           /\ sim.trail_index = hist.rr.n + 1 - hist.rr.k
           /\ Len(sim.trail_history) = hist.rr.n + 1
    /\ hist.rr.phase = "redo" =>
           /\ sim.trail_index = hist.rr.n + 1 - hist.rr.k + hist.rr.j
           /\ Len(sim.trail_history) = hist.rr.n + 1
    /\ hist.rr.phase \in {"back", "redo"} =>
           sim.trail_history[sim.trail_index] = current_point(sim)

\* the instance n = 3, k = 1: index 4, then 3, then 4 again with 4 samples
RewindRedoThreeOne ==
    /\ hist.rr = [phase |-> "redo", n |-> 3, k |-> 1, j |-> 1]
    /\ sim.trail_index = 4
    /\ Len(sim.trail_history) = 4

\* C6 as stated: when the simulation is paused at trail index i and resumed
\* with no reset, randomize, clear, drag of a mass, link-length edit or
\* backward frame step in between, the trail index at the resume is at least i.
\* It fails: pointer motion over the window while paused, with no mass being
\* dragged, runs _drag_update, which resets the trail.
PauseResumeKeepsTrail ==
    [][(sim.paused /\ ~sim'.paused /\ hist.paused_at >= 0
        /\ ~InTrace(sim', Shortening))
       => sim'.trail_index >= hist.paused_at]_vars

\* C7 as stated: across the consecutive unpaused ticks of a running segment the
\* trail index never decreases from tick to tick, and every tick raises it by
\* one. It fails: the clear key, Randomize (N) or a change of a link length
\* between two ticks resets the trail.
TickIndexNeverDecreases ==
    [][InTrace(sim', {"tick"}) =>
          /\ sim'.trail_index = sim.trail_index + 1
          /\ hist.seg_index >= 0 => sim'.trail_index >= hist.seg_index]_vars

\* C7, amended: every unpaused tick records the live point and raises the
\* trail index by exactly one, overwriting the sample at the cursor when stale
\* samples are ahead and appending otherwise; and from one tick to the next of
\* a running segment the index does not decrease, provided no event between
\* the two ticks reset the trail (clear, Randomize, a link-length change).
TickRaisesIndexByOne ==
    [][InTrace(sim', {"tick"}) =>
          /\ sim'.trail_index = sim.trail_index + 1
          /\ sim'.trail_history[sim'.trail_index] = current_point(sim')
          /\ Len(sim'.trail_history) =
                 IF sim.trail_index < Len(sim.trail_history)
                 THEN Len(sim.trail_history) ELSE Len(sim.trail_history) + 1
          /\ (hist.seg_index >= 0 /\ hist.seg_clean)
                 => sim'.trail_index = hist.seg_index + 1]_vars

\* the third tick in a row of a running segment
ThirdTickOfSegment ==
    /\ InTrace(sim, {"tick"})
    /\ hist.seg_ticks = 3
    /\ hist.seg_clean
    /\ sim.trail_index = 4

\* ------------------------------------------------------------------------
\* Properties of the integration
\* ------------------------------------------------------------------------

RECURSIVE SumSeq(_)
SumSeq(q) == IF q = <<>> THEN 0 ELSE Head(q) + SumSeq(Tail(q))

EveryStepWithinMaxDt ==
    \A i \in 1..Len(sim.step_calls) : Abs(sim.step_calls[i]) <= MAX_DT

\* the operations that change the state or a parameter of the energy: reset,
\* drag, randomize, a slider edit of a length, a mass or gravity, and the
\* gravity hotkeys
EnergyEdits ==
    {"reset_to_defaults", "randomize", "randomize_sliders_only",
     "apply_drag_mid", "apply_drag_end", "length_changed",
     "mass_or_gravity_changed", "gravity_key"}

\* C10 as stated: after an event whose handler changed the state or a
\* parameter of the energy, the energy reference is the energy of the current
\* state. It fails: the + and - keys change g and leave the reference.
EnergyReferenceFollowsEdits ==
    InTrace(sim, EnergyEdits) =>
        sim.pendulum.initial_energy = energy(sim.pendulum)

\* C11 as stated: while the simulation stays unpaused and the event is no
\* reset, randomize, drag, slider edit or hotkey edit, the energy reference
\* keeps its value across the event. It fails: _handle_mouse ends every event
\* that reaches it with _sync_from_sliders, which stores the current energy as
\* the reference, so pointer motion over the window of a running simulation
\* moves the baseline.
EnergyReferenceKeptWhileRunning ==
    [][(/\ ~sim.paused /\ ~sim'.paused
        /\ ~InTrace(sim', EnergyEdits \cup DiscontinuousEdits)
        /\ sim'.sliders = sim.sliders)
       => sim'.pendulum.initial_energy = sim.pendulum.initial_energy]_vars

\* ------------------------------------------------------------------------
\* The DoublePendulum on its own: calls of reset, positions and energy
\* ------------------------------------------------------------------------

\* the pendulums a call starts from; among them the one of the scenario
\* m1 = m2 = 1 kg, L1 = L2 = 1 m, g = 9.81, damping = 0, at rest at pi/2
CorePendulums ==
    [m1 : {20, 45}, m2 : {20, 8}, L1 : {100, 175}, L2 : {100, 60}, g : {981},
     damping : {0, 20}, theta1 : {HALF_PI, 0}, theta2 : {HALF_PI, 0},
     omega1 : {0, 1500}, omega2 : {0}, initial_energy : {0}]

\* the arguments of reset: omitted, 0, and pi / 3
OptAngles == {None, Some(0), Some(104720)}

CoreInit ==
    /\ \E p \in CorePendulums : sim = [pendulum |-> p]
    /\ work = 0
    /\ hist = [call |-> "none", args |-> <<>>, before |-> sim.pendulum, result |-> <<>>]

\* pendulum.reset(theta1, theta2)
ResetCall ==
    /\ work = 0
    /\ \E theta1 \in OptAngles, theta2 \in OptAngles :
           /\ sim' = [sim EXCEPT !.pendulum = reset(@, theta1, theta2)]
           /\ hist' = [call |-> "reset", args |-> <<theta1, theta2>>,
                       before |-> sim.pendulum, result |-> <<>>]
    /\ work' = 1

\* pendulum.positions() and pendulum.energy()
MeasureCall ==
    /\ work = 0
    /\ hist' = [call |-> "measure", args |-> <<>>, before |-> sim.pendulum,
                result |-> <<positions(sim.pendulum), energy(sim.pendulum)>>]
    /\ work' = 1
    /\ UNCHANGED sim

CoreSpec == CoreInit /\ [][ResetCall \/ MeasureCall]_vars

\* the fields of a pendulum that are its parameters
Parameters(p) == <<p.m1, p.m2, p.L1, p.L2, p.g, p.damping>>

\* C12: reset(theta1?, theta2?) sets each angle to the supplied value, 0
\* included, or to pi / 2 when the argument is omitted; it sets both angular
\* velocities to 0 and the energy reference to the energy of the new state,
\* and leaves m1, m2, L1, L2, g and damping as they were.
ResetSetsPoseAndReference ==
    hist.call = "reset" =>
        /\ \A i \in 1..2 :
               <<sim.pendulum.theta1, sim.pendulum.theta2>>[i] =
                   IF hist.args[i] = None THEN HALF_PI ELSE hist.args[i][1]
        /\ sim.pendulum.omega1 = 0 /\ sim.pendulum.omega2 = 0
        /\ sim.pendulum.initial_energy = energy(sim.pendulum)
        /\ Parameters(sim.pendulum) = Parameters(hist.before)

\* a moving pendulum reset with theta1 = 0 supplied and theta2 omitted
ResetWithZeroAndOmitted ==
    /\ hist.call = "reset" /\ hist.args = <<Some(0), None>>
    /\ hist.before.omega1 # 0 /\ hist.before.theta1 # 0
    /\ sim.pendulum.theta1 = 0 /\ sim.pendulum.theta2 = HALF_PI
    /\ sim.pendulum.initial_energy # hist.before.initial_energy

\* the pendulum of the scenario, with both angles theta
ScenarioPendulum(theta) ==
    [m1 |-> 20, m2 |-> 20, L1 |-> 100, L2 |-> 100, g |-> 981, damping |-> 0,
     theta1 |-> theta, theta2 |-> theta, omega1 |-> 0, omega2 |-> 0,
     initial_energy |-> 0]

\* positions() gave joint 1 at (1, 0) and joint 2 at (2, 0), within 0.001 m
ScenarioPositions ==
    /\ Abs(hist.result[1][1] - 100000) <= 100 /\ Abs(hist.result[1][2]) <= 100
    /\ Abs(hist.result[1][3] - 200000) <= 100 /\ Abs(hist.result[1][4]) <= 100

\* C13 as stated: in the scenario at theta1 = theta2 = pi / 2, positions()
\* returns about (1, 0) and (2, 0) and energy() returns -29.43 J within 0.01 J.
\* The energy part fails: both joints are level with the pivot, so y1 = y2 = 0
\* and the energy is 0.
ScenarioEnergyAsStated ==
    (hist.call = "measure" /\ hist.before = ScenarioPendulum(HALF_PI)) =>
        /\ ScenarioPositions
        /\ Abs(hist.result[2] + 5886000) <= 2000

\* C13, amended: in the scenario at pi / 2, positions() returns about (1, 0)
\* and (2, 0) and energy() returns 0 J within 0.01 J; -29.43 J is the energy
\* of the same pendulum hanging straight down (theta1 = theta2 = 0).
ScenarioPositionsAndEnergy ==
    /\ (hist.call = "measure" /\ hist.before = ScenarioPendulum(HALF_PI)) =>
           ScenarioPositions /\ Abs(hist.result[2]) <= 2000
    /\ (hist.call = "measure" /\ hist.before = ScenarioPendulum(0)) =>
           Abs(hist.result[2] + 5886000) <= 2000

\* the scenario at pi / 2 has been measured
ScenarioMeasured ==
    /\ hist.call = "measure" /\ hist.before = ScenarioPendulum(HALF_PI)
    /\ hist.result[1][3] > 0

\* ------------------------------------------------------------------------
\* Dragging a mass: _drag_update on a paused simulator, for many targets
\* ------------------------------------------------------------------------

\* link lengths of the slider range (0.01 m): both ends, the default, and a
\* pair that differs by one step
DragLengths == {40, 41, 100, 250}

\* the pendulums a drag starts from, some of them moving (after a frame step)
DragPendulums ==
    [m1 : {20}, m2 : {20}, L1 : DragLengths, L2 : DragLengths, g : {981},
     damping : {20}, theta1 : {HALF_PI, 30000}, theta2 : {HALF_PI},
     omega1 : {0, 1500}, omega2 : {-700}, initial_energy : {0}]

\* the sizes a VIDEORESIZE event asks for, from tiny to large
Windows == {<<300, 200>>, <<1280, 840>>, <<1920, 1080>>}

\* the pointer positions of a window: a grid over the render area with its
\* edges, the pivot itself and the pixel next to it
DragTargets(win) ==
    {win.origin, <<win.origin[1] + 1, win.origin[2]>>}
        \cup {<<(i * win.render_width) \div 4, (j * win.height) \div 4>> : i, j \in 0..4}

\* a paused simulator with the given pendulum and a mass held
DragSim(p, mode) ==
    [reset_trail_with_current(
         [InitSim EXCEPT !.pendulum = set_initial_energy(p),
                         !.sliders["L1"] = p.L1, !.sliders["L2"] = p.L2,
                         !.dragging_end = (mode = "end"),
                         !.dragging_mid = (mode = "mid")])
     EXCEPT !.trace = <<>>]

DragInit ==
    /\ \E p \in DragPendulums, mode \in {"end", "mid"} : sim = DragSim(p, mode)
    /\ work = 0
    /\ \E size \in Windows :
           hist = [call |-> "none", win |-> layout(size[1], size[2]), pos |-> <<0, 0>>,
                   scale |-> 0, target |-> <<0, 0>>, before |-> sim.pendulum]

\* a MOUSEMOTION event at pos while a mass is held: _drag_update(pos). The
\* call is "raised" when the division by scale raises.
DragCall ==
    /\ work = 0
    /\ \E pos \in DragTargets(hist.win) :
         LET scale == compute_scale(hist.win, sim.pendulum.L1, sim.pendulum.L2)
         IN  IF scale = 0 /\ sim.dragging_end
             THEN /\ hist' = [hist EXCEPT !.call = "raised", !.pos = pos]
                  /\ UNCHANGED sim
             ELSE /\ sim' = drag_update(Start,
                                IF sim.dragging_end
                                THEN world_point(pos, hist.win.origin, scale)
                                ELSE <<pos[1] - hist.win.origin[1],
                                       pos[2] - hist.win.origin[2]>>)
                  /\ hist' = [hist EXCEPT
                                 !.call = IF sim.dragging_end THEN "drag_end" ELSE "drag_mid",
                                 !.pos = pos, !.scale = scale,
                                 !.target = IF sim.dragging_end
                                            THEN world_point(pos, hist.win.origin, scale)
                                            ELSE <<pos[1] - hist.win.origin[1],
                                                   pos[2] - hist.win.origin[2]>>,
                                 !.before = sim.pendulum]
    /\ work' = 1

DragSpec == DragInit /\ [][DragCall]_vars

\* C14: both inverse-kinematics modes leave omega1 = omega2 = 0 and every
\* parameter as it was; the mid-joint mode sets theta1 to the direction of the
\* target and keeps theta2 - theta1, for every target.
DragZeroesVelocitiesKeepsOffset ==
    hist.call \in {"drag_end", "drag_mid"} =>
        /\ sim.pendulum.omega1 = 0 /\ sim.pendulum.omega2 = 0
        /\ Parameters(sim.pendulum) = Parameters(hist.before)
        /\ hist.call = "drag_mid" =>
               /\ sim.pendulum.theta1 = Atan2(hist.target[1], hist.target[2])
               /\ sim.pendulum.theta2 - sim.pendulum.theta1
                      = hist.before.theta2 - hist.before.theta1

\* a moving pendulum with an offset between its links, turned by its mid joint
MidDragTurnedBentPendulum ==
    /\ hist.call = "drag_mid"
    /\ hist.before.omega1 # 0 /\ hist.before.theta2 # hist.before.theta1
    /\ sim.pendulum.theta1 # hist.before.theta1
    /\ sim.pendulum.omega1 = 0

\* the target distance of an end-mass drag after the clamp, in 0.0001 m
ClampedRadius ==
    drag_radius(hist.before.L1, hist.before.L2, Hypot(hist.target[1], hist.target[2]))

\* C15: an end-mass drag never fails. For every pointer position, the pivot and
\* points out of reach included, and every L1, L2 of the slider range, the
\* division by scale does not raise and scale is over 0; the target distance
\* is clamped into [|L1 - L2| + 1e-4, L1 + L2 - 1e-4], which is not empty; the
\* argument of acos lies in [-1, 1]; and the drag ends with a pose.
EndDragNeverFails ==
    /\ hist.call # "raised"
    /\ hist.call = "drag_end" =>
           /\ hist.scale > 0
           /\ 100 * Abs(hist.before.L1 - hist.before.L2) + 1 <= ClampedRadius
           /\ ClampedRadius <= 100 * (hist.before.L1 + hist.before.L2) - 1
           /\ cos_elbow(hist.before.L1, hist.before.L2, Rnd(ClampedRadius, 10))
                  \in -1000..1000
           /\ sim.pendulum.theta1 \in Int /\ sim.pendulum.theta2 \in Int
           /\ InTrace(sim, {"apply_drag_end"})

\* the end mass of a pendulum with equal links dragged onto the pivot
EndDraggedOntoPivot ==
    /\ hist.call = "drag_end" /\ hist.target = <<0, 0>>
    /\ hist.before.L1 = hist.before.L2
    /\ ClampedRadius = 1

\* the end mass dragged to a point farther than L1 + L2 from the pivot
EndDraggedOutOfReach ==
    /\ hist.call = "drag_end"
    /\ Hypot(hist.target[1], hist.target[2]) > 100 * (hist.before.L1 + hist.before.L2)
    /\ ClampedRadius = 100 * (hist.before.L1 + hist.before.L2) - 1

\* the distance of the target of an end-mass drag from the pivot, in 0.0001 m
TargetRadius == Hypot(hist.target[1], hist.target[2])

\* the target's distance is a whole number of 0.0001 m, so that TargetRadius
\* is that distance and not a rounding of it
TargetRadiusExact ==
    /\ Max2(Abs(hist.target[1]), Abs(hist.target[2])) <= 30000
    /\ TargetRadius * TargetRadius
           = hist.target[1] * hist.target[1] + hist.target[2] * hist.target[2]

\* C18 as stated: for every target whose distance from the pivot lies in
\* [|L1 - L2|, L1 + L2], the pose of the end-mass mode puts the second mass
\* on the target to within 1e-6 m. The second mass of that pose lies at the
\* clamped distance from the pivot, so the clamped distance would have to be
\* the target's. It fails at both ends of the interval, where the clamp moves
\* the distance by 1e-4 m.
EndDragReproducesTargetInReach ==
    (/\ hist.call = "drag_end"
     /\ TargetRadiusExact
     /\ 100 * Abs(hist.before.L1 - hist.before.L2) <= TargetRadius
     /\ TargetRadius <= 100 * (hist.before.L1 + hist.before.L2))
        => ClampedRadius = TargetRadius

\* ------------------------------------------------------------------------
\* Properties of the parameters
\* ------------------------------------------------------------------------

\* C16: in every reachable state, and so wherever the derivatives or the
\* energy are computed, m1, m2, L1 and L2 are over 0, whatever slider drags,
\* typed values, randomize, reset, hotkeys and resizes came before.
ParametersStayPositive ==
    /\ sim.pendulum.m1 > 0 /\ sim.pendulum.m2 > 0
    /\ sim.pendulum.L1 > 0 /\ sim.pendulum.L2 > 0

\* a length pushed to the slider's minimum, by a typed negative number or by a
\* drag left of the track, and the energy computed with it
LengthEditedDownToMinimum ==
    /\ InTrace(sim, {"length_changed"})
    /\ sim.pendulum.L1 = SliderMin["L1"]
    /\ sim.pendulum.initial_energy = energy(sim.pendulum)

\* ------------------------------------------------------------------------
\* The range of the floats: step() in an arithmetic that overflows
\* ------------------------------------------------------------------------

\* The integrator above computes in fixed point and cannot leave the range of
\* its numbers. Below, the same code is computed in a binary floating point
\* with the exponent range of the program's doubles (a result of 2^1024 or more
\* is inf, one under 2^-1074 is 0) and a mantissa narrowed to 15 bits:
\*     [k |-> "num", m |-> mantissa, e |-> exponent]  is  m * 2^e,
\*     16384 <= |m| < 32768,
\* with the kinds "zero", "inf" (m is the sign), "nan", and "raise" for an
\* operation that raised an exception, which every later operation passes on.

FZero  == [k |-> "zero", m |-> 0, e |-> 0]
FNaN   == [k |-> "nan", m |-> 0, e |-> 0]
FRaise == [k |-> "raise", m |-> 0, e |-> 0]
FInf(sign) == [k |-> "inf", m |-> sign, e |-> 0]

Sign(m) == IF m >= 0 THEN 1 ELSE -1

\* m * 2^e brought to a 15-bit mantissa and rounded into the range of a double
RECURSIVE FNorm(_, _)
FNorm(m, e) ==
    IF m = 0 THEN FZero
    ELSE IF Abs(m) >= 32768 THEN FNorm(Sign(m) * ((Abs(m) + 1) \div 2), e + 1)
    ELSE IF Abs(m) < 16384 THEN FNorm(2 * m, e - 1)
    ELSE IF e + 14 >= 1024 THEN FInf(Sign(m))
    ELSE IF e + 14 < -1074 THEN FZero
    ELSE [k |-> "num", m |-> m, e |-> e]

\* the float of an integer, and of the fraction n / d
FInt(n) == FNorm(n, 0)
FNeg(a) == IF a.k \in {"num", "inf"} THEN [a EXCEPT !.m = -@] ELSE a

\* a * b
FMul(a, b) ==
    IF a.k = "raise" \/ b.k = "raise" THEN FRaise
    ELSE IF a.k = "nan" \/ b.k = "nan" THEN FNaN
    ELSE IF a.k = "inf" \/ b.k = "inf"
    THEN IF a.k = "zero" \/ b.k = "zero" THEN FNaN ELSE FInf(Sign(a.m) * Sign(b.m))
    ELSE IF a.k = "zero" \/ b.k = "zero" THEN FZero
    ELSE FNorm(a.m * b.m, a.e + b.e)

\* a / b; a division by 0.0 raises ZeroDivisionError
FDiv(a, b) ==
    IF a.k = "raise" \/ b.k = "raise" THEN FRaise
    ELSE IF b.k = "zero" THEN FRaise
    ELSE IF a.k = "nan" \/ b.k = "nan" THEN FNaN
    ELSE IF a.k = "inf"
    THEN IF b.k = "inf" THEN FNaN ELSE FInf(Sign(a.m) * Sign(b.m))
    ELSE IF b.k = "inf" \/ a.k = "zero" THEN FZero
    ELSE FNorm(Sign(a.m) * Sign(b.m) * ((Abs(a.m) * 32768) \div Abs(b.m)),
               a.e - b.e - 15)

\* a + b for two numbers, a the one with the larger exponent
FAddAligned(a, b) ==
    IF a.e - b.e > 16 THEN a
    ELSE IF a.e = b.e THEN FNorm(a.m + b.m, a.e)
    ELSE FNorm(2 * a.m + Rnd(b.m, 2 ^ (a.e - b.e - 1)), a.e - 1)

\* a + b
FAdd(a, b) ==
    IF a.k = "raise" \/ b.k = "raise" THEN FRaise
    ELSE IF a.k = "nan" \/ b.k = "nan" THEN FNaN
    ELSE IF a.k = "inf"
    THEN IF b.k = "inf" /\ b.m # a.m THEN FNaN ELSE a
    ELSE IF b.k = "inf" \/ a.k = "zero" THEN b
    ELSE IF b.k = "zero" THEN a
    ELSE IF a.e >= b.e THEN FAddAligned(a, b) ELSE FAddAligned(b, a)

\* a - b
FSub(a, b) == FAdd(a, FNeg(b))

\* a ** 2; the power of a finite float raises OverflowError when it overflows
FSqr(a) ==
    IF a.k = "num" /\ FMul(a, a).k = "inf" THEN FRaise ELSE FMul(a, a)

\* the float of v / 1000
FMilli(v) == FDiv(FInt(v), FInt(1000))

\* a finite float under 16384 rad in 0.001 rad
FToMrad(a) == Rnd(a.m * 1000, 2 ^ (-a.e))

\* math.sin(a) and math.cos(a). Both raise ValueError for inf and give nan for
\* nan. Under 0.001 rad sin(a) is a and cos(a) is 1. From 16384 rad on the
\* 15-bit mantissa leaves the angle undetermined by more than a turn, and the
\* sine and cosine are the pair trig (0.001), an input of the step.
FSin(a, trig) ==
    IF a.k \in {"raise", "inf"} THEN FRaise
    ELSE IF a.k \in {"nan", "zero"} THEN a
    ELSE IF a.e >= 0 THEN FMilli(trig[1])
    ELSE IF a.e < -25 THEN a
    ELSE FMilli(SinMrad(FToMrad(a)))

FCos(a, trig) ==
    IF a.k \in {"raise", "inf"} THEN FRaise
    ELSE IF a.k = "nan" THEN a
    ELSE IF a.k = "zero" THEN FInt(1)
    ELSE IF a.e >= 0 THEN FMilli(trig[2])
    ELSE IF a.e < -25 THEN FInt(1)
    ELSE FMilli(CosMrad(FToMrad(a)))

\* den1 = (m1 + m2) * L1 - m2 * L1 * math.cos(delta) ** 2, c = cos(delta)
float_den1(p, c) ==
    FSub(FMul(FAdd(p.m1, p.m2), p.L1), FMul(FMul(p.m2, p.L1), FSqr(c)))

\* den2 = (L2 / L1) * den1
float_den2(p, den1) == FMul(FDiv(p.L2, p.L1), den1)

\* _derivatives in floats: the result, from the terms used more than once
float_derivatives_terms(p, omega1, omega2, s, c, s1, s2, den1) ==
    <<omega1, omega2,
      FSub(FDiv(FSub(FAdd(FAdd(FMul(FMul(FMul(FMul(p.m2, p.L1), FSqr(omega1)), s), c),
                               FMul(FMul(FMul(p.m2, p.g), s2), c)),
                          FMul(FMul(FMul(p.m2, p.L2), FSqr(omega2)), s)),
                     FMul(FMul(FAdd(p.m1, p.m2), p.g), s1)),
                den1),
           FMul(p.damping, omega1)),
      FSub(FDiv(FAdd(FMul(FMul(FMul(FMul(FNeg(p.m2), p.L2), FSqr(omega2)), s), c),
                     FMul(FAdd(p.m1, p.m2),
                          FSub(FSub(FMul(FMul(p.g, s1), c),
                                    FMul(FMul(p.L1, FSqr(omega1)), s)),
                               FMul(p.g, s2)))),
                float_den2(p, den1)),
           FMul(p.damping, omega2))>>

\* _derivatives in floats: s = sin(delta), c = cos(delta), s1 = sin(theta1),
\* s2 = sin(theta2)
float_derivatives_trig(p, omega1, omega2, s, c, s1, s2) ==
    float_derivatives_terms(p, omega1, omega2, s, c, s1, s2,
                            float_den1(p, c))

\* _derivatives in floats, delta = theta2 - theta1
float_derivatives_delta(p, theta1, theta2, omega1, omega2, delta, trig) ==
    float_derivatives_trig(p, omega1, omega2, FSin(delta, trig), FCos(delta, trig),
                           FSin(theta1, trig), FSin(theta2, trig))

\* _derivatives(theta1, theta2, omega1, omega2) in floats
float_derivatives(p, theta1, theta2, omega1, omega2, trig) ==
    float_derivatives_delta(p, theta1, theta2, omega1, omega2,
                            FSub(theta2, theta1), trig)

\* x + f * dt * k, the argument of a stage (f is 0.5 or 1.0)
FStage(x, f, dt, k) == FAdd(x, FMul(FMul(f, dt), k))

\* x + dt / 6.0 * (k1 + 2 * k2 + 2 * k3 + k4)
FSum(x, dt, k1, k2, k3, k4) ==
    FAdd(x, FMul(FDiv(dt, FInt(6)),
                 FAdd(FAdd(FAdd(k1, FMul(FInt(2), k2)), FMul(FInt(2), k3)), k4)))

\* whether one of the derivatives of a stage raised
Raised(k) == \E i \in 1..4 : k[i].k = "raise"

\* step in floats: the four assignments that end it. An exception raised in a
\* stage leaves the method before them, and the state is as it was.
float_step_sum(p, dt, k1, k2, k3, k4) ==
    IF Raised(k1) \/ Raised(k2) \/ Raised(k3) \/ Raised(k4)
    THEN [p EXCEPT !.raised = TRUE]
    ELSE [p EXCEPT !.theta1 = FSum(@, dt, k1[1], k2[1], k3[1], k4[1]),
                   !.theta2 = FSum(@, dt, k1[2], k2[2], k3[2], k4[2]),
                   !.omega1 = FSum(@, dt, k1[3], k2[3], k3[3], k4[3]),
                   !.omega2 = FSum(@, dt, k1[4], k2[4], k3[4], k4[4])]

\* step in floats: k4 from k3
float_step_k4(p, dt, k1, k2, k3, trig) ==
    float_step_sum(p, dt, k1, k2, k3,
        float_derivatives(p, FStage(p.theta1, FInt(1), dt, k3[1]),
                             FStage(p.theta2, FInt(1), dt, k3[2]),
                             FStage(p.omega1, FInt(1), dt, k3[3]),
                             FStage(p.omega2, FInt(1), dt, k3[4]), trig))

\* step in floats: k3 from k2
float_step_k3(p, dt, k1, k2, trig) ==
    float_step_k4(p, dt, k1, k2,
        float_derivatives(p, FStage(p.theta1, FMilli(500), dt, k2[1]),
                             FStage(p.theta2, FMilli(500), dt, k2[2]),
                             FStage(p.omega1, FMilli(500), dt, k2[3]),
                             FStage(p.omega2, FMilli(500), dt, k2[4]), trig),
        trig)

\* step in floats: k2 from k1
float_step_k2(p, dt, k1, trig) ==
    float_step_k3(p, dt, k1,
        float_derivatives(p, FStage(p.theta1, FMilli(500), dt, k1[1]),
                             FStage(p.theta2, FMilli(500), dt, k1[2]),
                             FStage(p.omega1, FMilli(500), dt, k1[3]),
                             FStage(p.omega2, FMilli(500), dt, k1[4]), trig),
        trig)

\* step(dt) in floats
float_step(p, dt, trig) ==
    float_step_k2(p, dt,
        float_derivatives(p, p.theta1, p.theta2, p.omega1, p.omega2, trig), trig)

\* 2^e as a float
FPow2(e) == FNorm(16384, e - 14)

\* the pendulums a float step starts from: parameters of the slider ranges,
\* finite angles, and finite velocities up to the largest whose square is finite
FloatPendulums ==
    [m1 : {FMilli(500)}, m2 : {FInt(1), FInt(5)}, L1 : {FMilli(400), FInt(2)},
     L2 : {FMilli(400)}, g : {FInt(25)}, damping : {FMilli(50)},
     theta1 : {FZero, FInt(1)}, theta2 : {FZero, FInt(1)},
     omega1 : {FZero, FInt(1), FPow2(400), FPow2(505), FPow2(511), FPow2(512)},
     omega2 : {FZero, FInt(1), FPow2(400), FPow2(505), FPow2(511), FPow2(512)},
     raised : {FALSE}]

\* dt of a sub-step (0.002 s) and of a frame step at time scale 3.0 (0.05 s),
\* forward and backward
FloatDts == {FMilli(2), FMilli(50), FMilli(-50)}

\* the sine and the cosine (0.001) of the large angles of a step
TrigOracle == {<<0, 1000>>, <<1000, 0>>, <<-600, 800>>}

FloatInit ==
    /\ \E p \in FloatPendulums : sim = [pendulum |-> p]
    /\ work = 0
    /\ hist = [call |-> "none", dt |-> FZero, trig |-> <<0, 1000>>,
               before |-> sim.pendulum]

\* pendulum.step(dt)
FloatStepCall ==
    /\ work = 0
    /\ \E dt \in FloatDts, trig \in TrigOracle :
           /\ sim' = [sim EXCEPT !.pendulum = float_step(@, dt, trig)]
           /\ hist' = [call |-> "step", dt |-> dt, trig |-> trig, before |-> sim.pendulum]
    /\ work' = 1

FloatSpec == FloatInit /\ [][FloatStepCall]_vars

Finite(a) == a.k \in {"zero", "num"}

\* C17 as stated: a step whose result is not finite is surfaced as a failure,
\* and the value is never stored: the angles and velocities of the pendulum
\* are finite after every call of step. It fails: step has no check of its
\* result, and a product that overflows gives inf without raising.
StepNeverStoresNonFinite ==
    hist.call = "step" =>
        /\ Finite(sim.pendulum.theta1) /\ Finite(sim.pendulum.theta2)
        /\ Finite(sim.pendulum.omega1) /\ Finite(sim.pendulum.omega2)

\* ------------------------------------------------------------------------
\* The last visible sample of the trail
\* ------------------------------------------------------------------------

\* C20: after every operation of the host (tick, frame step forward and
\* backward, reset, randomize, clear, drag update, edit of a link length, and
\* every other event) the cursor is at least 1 and within the buffer, and the
\* sample under it, trail_history[trail_index - 1] of the code, is the live
\* position of the second mass; so no sample of before a rewind lies in the
\* visible range without having been overwritten.
LastVisibleSampleIsLivePoint ==
    /\ sim.trail_index >= 1
    /\ sim.trail_index <= Len(sim.trail_history)
    /\ sim.trail_history[sim.trail_index] = current_point(sim)

\* a forward step after a rewind: the cursor moved onto a place that held a
\* sample of before the rewind, and samples of before it still lie ahead
RedoOverwroteOldSample ==
    /\ InTrace(sim, {"advance"})
    /\ sim.trail_index >= 2
    /\ sim.trail_index < Len(sim.trail_history)
    /\ sim.trail_history[sim.trail_index] = current_point(sim)

\* ------------------------------------------------------------------------
\* The denominators of the derivative function
\* ------------------------------------------------------------------------

\* the least mass of the calls of _derivatives: 2^MinMassExp kg
MinMassExp == -20

\* the pendulums _derivatives is called on: positive masses from 2^-20 kg to
\* the sliders' 5 kg, the lengths of the sliders' ends, at rest
DenPendulums ==
    [m1 : {FPow2(MinMassExp), FMilli(500), FMilli(700), FInt(5)},
     m2 : {FMilli(500), FInt(1), FInt(5)},
     L1 : {FMilli(400), FInt(1), FMilli(2500)}, L2 : {FMilli(400), FMilli(2500)},
     g : {FMilli(9810)}, damping : {FZero},
     theta1 : {FZero}, theta2 : {FZero}, omega1 : {FZero}, omega2 : {FZero},
     raised : {FALSE}]

\* the angles of the calls (0.001 rad): 0, 0.3, pi / 2, 2, pi, -1
DenAngles == {FZero, FMilli(300), FMilli(1571), FInt(2), FMilli(3142), FInt(-1)}

DenInit ==
    /\ \E p \in DenPendulums : sim = [pendulum |-> p]
    /\ work = 0
    /\ hist = [call |-> "none", theta1 |-> FZero, theta2 |-> FZero, c |-> FZero,
               den1 |-> FZero, den2 |-> FZero, raised |-> FALSE]

\* pendulum._derivatives(theta1, theta2, 0.0, 0.0); raised tells that one of
\* the two divisions raised ZeroDivisionError
DerivativesCall ==
    /\ work = 0
    /\ \E theta1 \in DenAngles, theta2 \in DenAngles :
         hist' = [call |-> "derivatives", theta1 |-> theta1, theta2 |-> theta2,
                  c |-> FCos(FSub(theta2, theta1), <<0, 1000>>),
                  den1 |-> float_den1(sim.pendulum,
                               FCos(FSub(theta2, theta1), <<0, 1000>>)),
                  den2 |-> float_den2(sim.pendulum,
                               float_den1(sim.pendulum,
                                   FCos(FSub(theta2, theta1), <<0, 1000>>))),
                  raised |-> Raised(float_derivatives(sim.pendulum, theta1, theta2,
                                        FZero, FZero, <<0, 1000>>))]
    /\ work' = 1
    /\ UNCHANGED sim

DenSpec == DenInit /\ [][DerivativesCall]_vars

\* a > 0, and a >= b, for floats
FPositive(a) == a.k \in {"num", "inf"} /\ a.m > 0
FAtLeast(a, b) == FSub(a, b).k = "zero" \/ FPositive(FSub(a, b))

MaxInputWork == 2

\* what lies under the pointer of a press: a mass, nothing, the Start button
PressTargets == {"mass_end", "mass_mid", "empty", "start"}

\* the hotkeys of gravity, damping and time scale
Hotkeys == {"minus", "plus", "d", "s"}

\* the angles and the velocities of a pendulum
Pose(p) == <<p.theta1, p.theta2, p.omega1, p.omega2>>

\* gravity, damping and time scale of a simulator
HotkeyValues(s) == <<s.pendulum.g, s.pendulum.damping, s.time_scale>>

InputInit ==
    /\ sim = InitSim
    /\ work = 0
    /\ hist = [event |-> "none", held |-> FALSE, drag |-> FALSE, moved |-> FALSE,
               kept |-> TRUE]

\* An event with the result s. The history holds the event, whether the left
\* button is down (held), whether it has been down ever since a press that
\* landed on a mass (drag), whether the event changed the angles or the
\* velocities (moved), and whether it left gravity, damping and time scale
\* as they were (kept).
InputEvent(s, event, held, drag, cost) ==
    /\ work + cost <= MaxInputWork
    /\ sim' = s
    /\ hist' = [event |-> event, held |-> held, drag |-> drag,
                moved |-> Pose(s.pendulum) # Pose(sim.pendulum),
                kept |-> HotkeyValues(s) = HotkeyValues(sim)]
    /\ work' = work + cost

\* MOUSEBUTTONDOWN of the left button, which was up
PointerPress ==
    /\ ~hist.held
    /\ \E target \in PressTargets :
           InputEvent(handle_mouse(Start, Down(target)),
                      IF target = "empty" THEN "press_empty" ELSE "press",
                      TRUE, target \in {"mass_end", "mass_mid"}, 0)

\* MOUSEBUTTONUP of the left button, which was down
PointerRelease ==
    /\ hist.held
    /\ InputEvent(handle_mouse(Start, Mouse("up", "none", "none", 0, <<0, 0>>, defaults)),
                  "release", FALSE, FALSE, 0)

\* MOUSEMOTION, with the button down or up
PointerMotion ==
    \E pos \in Positions, pct \in Pcts :
        InputEvent(handle_mouse(Start, Mouse("motion", "none", "none", pct, pos, defaults)),
                   "motion", hist.held, hist.drag, 0)

\* KEYDOWN of Space: pause and resume
SpaceKey ==
    InputEvent(key_event(Start, "space", NoText, NoAngles), "space",
               hist.held, hist.drag, 0)

\* KEYDOWN of +, -, D or S
Hotkey ==
    \E key \in Hotkeys :
        InputEvent(key_event(Start, key, NoText, NoAngles), "hotkey",
                   hist.held, hist.drag, 1)

\* one pass of the loop of run() after its events
InputFrame ==
    \E dt_real \in DtReals :
        InputEvent(run_frame(Start, dt_real), "frame", hist.held, hist.drag,
                   IF sim.paused THEN 0 ELSE 1)

InputNext ==
    \/ PointerPress \/ PointerRelease \/ PointerMotion
    \/ SpaceKey \/ Hotkey \/ InputFrame

InputSpec == InputInit /\ [][InputNext]_vars

\* C21 as stated: pointer motion changes the angles and the velocities only
\* while the simulation is paused and the left button has been down ever
\* since a press that landed on a mass; after a release no motion changes
\* them until the next such press. It fails: a release while the simulation
\* runs leaves dragging_end and dragging_mid set, and after the next pause
\* motion of the pointer with the button up moves the pendulum.
MotionMovesOnlyHeldMass ==
    (hist.event = "motion" /\ hist.moved) => (sim.paused /\ hist.drag)

\* C22 as stated: an event that edits nothing, pointer motion, a click on
\* empty space or a release, leaves pendulum.g, pendulum.damping and
\* time_scale as they were, so that a value set by hotkey stays until its
\* slider is edited or a reset or randomize. It fails: _handle_mouse ends with
\* _sync_from_sliders, which copies the three values from the sliders.
IdleEventsKeepHotkeyValues ==
    hist.event \in {"motion", "press_empty", "release"} => hist.kept

=============================================================================
